---- MODULE Spec2Model ----
(***************************************************************************)
(* A model of the constituent import transformer (main.py,                 *)
(* src/transform.py, src/validate.py).                                     *)
(*                                                                         *)
(* Text is modelled as a sequence of one-character strings, so that        *)
(* trimming, lower-casing, splitting, formatting and parsing are computed  *)
(* the way the code computes them.  A missing cell (pandas NaN / None) is  *)
(* the value NaN.  Amounts are exact decimals counted in thousandths of a  *)
(* dollar; a parsed timestamp is a number of ticks, TicksPerDay per day.   *)
(***************************************************************************)
EXTENDS Integers, Sequences, FiniteSets, TLC

\* ------------------------------------------------------------------------
\* Text helpers (Python str / pandas scalars)
\* ------------------------------------------------------------------------

\* A missing cell: float('nan') / None / NaT as pd.isna sees it.
NaN == <<"<NaN>">>

EmptyStr == <<>>

\* str.strip() with no argument removes these.
Whitespace == {" ", "\t", "\n"}

\* The characters standardize_email strips: s.strip(" <>\"'")
EmailWrapChars == {" ", "<", ">", "\"", "'"}

UpperAlpha == <<"A","B","C","D","E","F","G","H","I","J","K","L","M",
                "N","O","P","Q","R","S","T","U","V","W","X","Y","Z">>

LowerAlpha == <<"a","b","c","d","e","f","g","h","i","j","k","l","m",
                "n","o","p","q","r","s","t","u","v","w","x","y","z">>

\* Code points of the characters the model uses, for string comparison.
Ord(ch) ==
    IF \E i \in 1..26 : UpperAlpha[i] = ch
      THEN 64 + (CHOOSE i \in 1..26 : UpperAlpha[i] = ch)
    ELSE IF \E i \in 1..26 : LowerAlpha[i] = ch
      THEN 96 + (CHOOSE i \in 1..26 : LowerAlpha[i] = ch)
    ELSE CASE ch = "\t" -> 9  [] ch = "\n" -> 10 [] ch = " " -> 32
           [] ch = "\"" -> 34 [] ch = "$" -> 36  [] ch = "'" -> 39
           [] ch = "," -> 44  [] ch = "-" -> 45  [] ch = "." -> 46
           [] ch = "0" -> 48  [] ch = "1" -> 49  [] ch = "2" -> 50
           [] ch = "3" -> 51  [] ch = "4" -> 52  [] ch = "5" -> 53
           [] ch = "6" -> 54  [] ch = "7" -> 55  [] ch = "8" -> 56
           [] ch = "9" -> 57  [] ch = ":" -> 58  [] ch = "<" -> 60
           [] ch = ">" -> 62  [] ch = "@" -> 64
           [] OTHER -> 127

LowerChar(ch) ==
    IF \E i \in 1..26 : UpperAlpha[i] = ch
      THEN LowerAlpha[CHOOSE i \in 1..26 : UpperAlpha[i] = ch]
      ELSE ch

\* str.lower()
Lower(s) == [i \in 1..Len(s) |-> LowerChar(s[i])]

RECURSIVE LStrip(_, _)
LStrip(s, chars) ==
    IF s # <<>> /\ Head(s) \in chars THEN LStrip(Tail(s), chars) ELSE s

RECURSIVE RStrip(_, _)
RStrip(s, chars) ==
    IF s # <<>> /\ s[Len(s)] \in chars
      THEN RStrip(SubSeq(s, 1, Len(s) - 1), chars)
      ELSE s

\* str.strip(chars)
Strip(s, chars) == RStrip(LStrip(s, chars), chars)

\* "x in s" for a one-character x
Contains(s, ch) == \E i \in 1..Len(s) : s[i] = ch

\* s.count(ch)
Count(s, ch) == Cardinality({i \in 1..Len(s) : s[i] = ch})

\* s.replace(ch, "")
RECURSIVE Remove(_, _)
Remove(s, ch) ==
    IF s = <<>> THEN <<>>
    ELSE IF Head(s) = ch THEN Remove(Tail(s), ch)
    ELSE <<Head(s)>> \o Remove(Tail(s), ch)

\* s.split(ch): the pieces between the separators, empty pieces kept
RECURSIVE Split(_, _)
Split(s, ch) ==
    IF ~Contains(s, ch) THEN <<s>>
    ELSE LET i == CHOOSE k \in 1..Len(s) :
                     s[k] = ch /\ \A j \in 1..(k - 1) : s[j] # ch
         IN  <<SubSeq(s, 1, i - 1)>> \o Split(SubSeq(s, i + 1, Len(s)), ch)

\* sep.join(lst)
RECURSIVE Join(_, _)
Join(lst, sep) ==
    IF lst = <<>> THEN <<>>
    ELSE IF Len(lst) = 1 THEN lst[1]
    ELSE lst[1] \o sep \o Join(Tail(lst), sep)

\* Python's < on str: lexicographic by code point
RECURSIVE StrLess(_, _)
StrLess(a, b) ==
    IF b = <<>> THEN FALSE
    ELSE IF a = <<>> THEN TRUE
    ELSE IF Ord(Head(a)) # Ord(Head(b)) THEN Ord(Head(a)) < Ord(Head(b))
    ELSE StrLess(Tail(a), Tail(b))

\* The elements of a sequence
Range(s) == {s[i] : i \in 1..Len(s)}

\* ------------------------------------------------------------------------
\* transform.py: scalar helpers
\* ------------------------------------------------------------------------

_clean_str(x) == IF x = NaN THEN EmptyStr ELSE Strip(x, Whitespace)

standardize_email(raw) == Strip(Lower(_clean_str(raw)), EmailWrapChars)

is_valid_email(email) ==
    LET e == standardize_email(email) IN
    IF e = EmptyStr \/ Contains(e, " ") THEN FALSE
    ELSE IF Count(e, "@") # 1 THEN FALSE
    ELSE LET parts  == Split(e, "@")
             local  == parts[1]
             domain == parts[2]
         IN  IF local = EmptyStr \/ domain = EmptyStr THEN FALSE
             ELSE IF ~Contains(domain, ".") THEN FALSE
             ELSE TRUE

\* Optional[float]: None, or a number of thousandths of a dollar
None == [ok |-> FALSE]

Some(v) == [ok |-> TRUE, v |-> v]

Digits == <<"0","1","2","3","4","5","6","7","8","9">>

IsDigit(ch) == \E i \in 1..10 : Digits[i] = ch

DigitVal(ch) == (CHOOSE i \in 1..10 : Digits[i] = ch) - 1

\* The value of a non-empty run of digits
RECURSIVE DigitsVal(_)
DigitsVal(s) ==
    IF s = <<>> THEN 0
    ELSE DigitsVal(SubSeq(s, 1, Len(s) - 1)) * 10 + DigitVal(s[Len(s)])

\* A literal without its sign: digits, optional fraction of at most three
\* digits; its value in thousandths, or None
ParseUnsigned(ip, fp, nparts) ==
    IF /\ nparts <= 2
       /\ \A i \in 1..Len(ip) : IsDigit(ip[i])
       /\ \A i \in 1..Len(fp) : IsDigit(fp[i])
       /\ Len(ip) + Len(fp) >= 1
       /\ Len(fp) <= 3
      THEN Some(DigitsVal(ip) * 1000
                  + DigitsVal(fp \o SubSeq(<<"0","0","0">>, 1, 3 - Len(fp))))
      ELSE None

ParseParts(ps) ==
    ParseUnsigned(ps[1], IF Len(ps) >= 2 THEN ps[2] ELSE <<>>, Len(ps))

ParseSigned(t) ==
    IF t # <<>> /\ Head(t) = "-"
      THEN LET r == ParseParts(Split(Tail(t), "."))
           IN  IF r.ok THEN Some(0 - r.v) ELSE None
    ELSE IF t # <<>> /\ Head(t) = "+" THEN ParseParts(Split(Tail(t), "."))
    ELSE ParseParts(Split(t, "."))

\* float(s) for plain decimal literals: optional sign, digits, optional
\* fraction of at most three digits; the value in thousandths.  Anything
\* else is Python's ValueError, returned as None.
ParseFloat(s) == ParseSigned(Strip(s, Whitespace))

CurrencyOfClean(s) ==
    IF s = EmptyStr THEN None
    ELSE ParseFloat(Strip(Remove(Remove(s, "$"), ","), Whitespace))

parse_currency_to_float(raw) == CurrencyOfClean(_clean_str(raw))

\* The decimal digits of a natural number
RECURSIVE NatToStr(_)
NatToStr(n) ==
    IF n < 10 THEN <<Digits[n + 1]>>
    ELSE NatToStr(n \div 10) \o <<Digits[(n % 10) + 1]>>

\* The "," option of the format mini-language: groups of three from the right
RECURSIVE GroupThousands(_)
GroupThousands(ds) ==
    IF Len(ds) <= 3 THEN ds
    ELSE GroupThousands(SubSeq(ds, 1, Len(ds) - 3))
           \o <<",">> \o SubSeq(ds, Len(ds) - 2, Len(ds))

\* Thousandths rounded to hundredths (".2f"), ties to even
RoundCents(mag) ==
    LET q == mag \div 10
        r == mag % 10
    IN  IF r > 5 \/ (r = 5 /\ q % 2 = 1) THEN q + 1 ELSE q

\* "$", sign, grouped whole dollars, ".", two digits
FormatCents(neg, cents) ==
    <<"$">> \o (IF neg THEN <<"-">> ELSE <<>>)
      \o GroupThousands(NatToStr(cents \div 100))
      \o <<".">>
      \o <<Digits[((cents % 100) \div 10) + 1], Digits[(cents % 10) + 1]>>

\* f"${amount:,.2f}" of a float that is not None and not NaN
format_currency(amount) ==
    FormatCents(amount < 0, RoundCents(IF amount < 0 THEN 0 - amount ELSE amount))

\* A parsed timestamp counts ticks; TicksPerDay ticks make a calendar day.
TicksPerDay == 2

\* NaT
NaT == [ok |-> FALSE]

D_Jan1   == <<"2","0","2","4","-","0","1","-","0","1">>
D_Mar1   == <<"2","0","2","4","-","0","3","-","0","1">>
D_Jun1   == <<"2","0","2","4","-","0","6","-","0","1">>
D_Jun1pm == <<"2","0","2","4","-","0","6","-","0","1"," ","1","2",":","0","0">>
D_Bad    == <<"n","/","a">>

\* The date texts the model knows, each with the timestamp pandas gives it
KnownDates ==
    << [text |-> D_Jan1,   ticks |-> 1 * TicksPerDay],
       [text |-> D_Mar1,   ticks |-> 2 * TicksPerDay],
       [text |-> D_Jun1,   ticks |-> 3 * TicksPerDay],
       [text |-> D_Jun1pm, ticks |-> 3 * TicksPerDay + 1] >>

\* date().isoformat() of a timestamp
IsoDate(ticks) ==
    LET day == ticks \div TicksPerDay
    IN  CASE day = 1 -> D_Jan1 [] day = 2 -> D_Mar1 [] day = 3 -> D_Jun1

\* pd.to_datetime(x, errors="coerce") of one cell, value by value
to_datetime(x) ==
    IF x = NaN THEN NaT
    ELSE LET t == Strip(x, Whitespace)
         IN  IF \E i \in 1..Len(KnownDates) : KnownDates[i].text = t
               THEN Some((CHOOSE k \in Range(KnownDates) : k.text = t).ticks)
               ELSE NaT

parse_date_any(raw) ==
    LET s == _clean_str(raw) IN
    IF s = EmptyStr THEN EmptyStr
    ELSE LET dt == to_datetime(s)
         IN  IF ~dt.ok THEN EmptyStr ELSE IsoDate(dt.v)

normalize_salutation(raw) ==
    LET s == _clean_str(raw) IN
    IF s = EmptyStr THEN EmptyStr
    ELSE LET k == Lower(Strip(Remove(s, "."), Whitespace))
         IN  CASE k = <<"m","r">>     -> <<"M","r",".">>
               [] k = <<"m","r","s">> -> <<"M","r","s",".">>
               [] k = <<"m","s">>     -> <<"M","s",".">>
               [] k = <<"d","r">>     -> <<"D","r",".">>
               [] OTHER               -> EmptyStr

\* ------------------------------------------------------------------------
\* transform.py: tags
\* ------------------------------------------------------------------------

\* DedupeCI comparing the entries as written, not lower-cased
RECURSIVE DedupeCI_CaseSensitive(_, _, _)
DedupeCI_CaseSensitive(parts, out, seen) ==
    IF parts = <<>> THEN out
    ELSE LET p == Head(parts) IN
         IF p = EmptyStr THEN DedupeCI_CaseSensitive(Tail(parts), out, seen)
         ELSE IF p \in seen THEN DedupeCI_CaseSensitive(Tail(parts), out, seen)
         ELSE DedupeCI_CaseSensitive(Tail(parts), Append(out, p), seen \cup {p})

\* The loop of split_tags / apply_tag_mapping that keeps the first entry of
\* each lower-cased key: out is the list so far, seen its keys
RECURSIVE DedupeCI(_, _, _)
DedupeCI(parts, out, seen) ==
    IF parts = <<>> THEN out
    ELSE LET p == Head(parts) IN
         IF p = EmptyStr THEN DedupeCI(Tail(parts), out, seen)
         ELSE IF Lower(p) \in seen THEN DedupeCI(Tail(parts), out, seen)
         ELSE DedupeCI(Tail(parts), Append(out, p), seen \cup {Lower(p)})

split_tags(raw) ==
    LET s == _clean_str(raw) IN
    IF s = EmptyStr THEN <<>>
    ELSE LET pieces == Split(s, ",")
             parts  == [i \in 1..Len(pieces) |-> Strip(pieces[i], Whitespace)]
         IN  DedupeCI(parts, <<>>, {})

\* dict.get(key, default) on a mapping held as a function
DictGet(mapping, key, default) ==
    IF key \in DOMAIN mapping THEN mapping[key] ELSE default

\* {}
EmptyMapping == [k \in {} |-> EmptyStr]

apply_tag_mapping(tags, mapping) ==
    LET mapped == [i \in 1..Len(tags) |->
                     _clean_str(DictGet(mapping,
                                        Lower(Strip(tags[i], Whitespace)),
                                        tags[i]))]
    IN  DedupeCI(mapped, <<>>, {})

\* ------------------------------------------------------------------------
\* transform.py: tag mapping fetch
\* ------------------------------------------------------------------------

\* The loop over the rows of the response: a later row replaces an earlier
\* one with the same lower-cased name
RECURSIVE MappingOfRows(_, _)
MappingOfRows(data, mapping) ==
    IF data = <<>> THEN mapping
    ELSE LET row    == Head(data)
             name   == _clean_str(row.name)
             mapped == _clean_str(row.mapped_name)
             key    == Lower(Strip(name, Whitespace))
             val    == Strip(mapped, Whitespace)
             m2     == IF name # EmptyStr /\ mapped # EmptyStr
                         THEN [k \in DOMAIN mapping \cup {key} |->
                                 IF k = key THEN val ELSE mapping[k]]
                         ELSE mapping
         IN  MappingOfRows(Tail(data), m2)

\* The ways the request can go (resp is what the network does)
Responses == {"connection_error", "timeout", "http_error", "invalid_json",
              "rows_not_objects", "ok"}

\* The body of the try block: what it returns, or that it raised
FetchTry(resp, data) ==
    IF resp = "connection_error" \/ resp = "timeout"
      THEN [raised |-> TRUE,  value |-> EmptyMapping]   \* requests.get
    ELSE IF resp = "http_error"
      THEN [raised |-> TRUE,  value |-> EmptyMapping]   \* raise_for_status
    ELSE IF resp = "invalid_json"
      THEN [raised |-> TRUE,  value |-> EmptyMapping]   \* resp.json
    ELSE IF resp = "rows_not_objects"
      THEN [raised |-> TRUE,  value |-> EmptyMapping]   \* row.get
    ELSE [raised |-> FALSE, value |-> MappingOfRows(data, EmptyMapping)]

\* FetchExcept without the handler
FetchExcept_NoHandler(r) == r

\* except Exception: return {}
FetchExcept(r) ==
    IF r.raised THEN [raised |-> FALSE, value |-> EmptyMapping] ELSE r

fetch_tag_mapping(requests_ok, resp, data) ==
    IF ~requests_ok THEN [raised |-> FALSE, value |-> EmptyMapping]
    ELSE FetchExcept(FetchTry(resp, data))

\* ------------------------------------------------------------------------
\* transform.py: tables
\* ------------------------------------------------------------------------

\* The strings of a finite set in ascending order (sorted index / group keys)
RECURSIVE SortStrs(_)
SortStrs(S) ==
    IF S = {} THEN <<>>
    ELSE LET m == CHOOSE x \in S : \A y \in S \ {x} : StrLess(x, y)
         IN  <<m>> \o SortStrs(S \ {m})

\* The entries of a sequence that satisfy a test, in order
RECURSIVE SelectIdx(_, _)
SelectIdx(n, keep) ==
    IF n = 0 THEN <<>>
    ELSE IF n \in keep THEN Append(SelectIdx(n - 1, keep), n)
    ELSE SelectIdx(n - 1, keep)

Pick(seq, keep) ==
    LET idx == SelectIdx(Len(seq), keep)
    IN  [k \in 1..Len(idx) |-> seq[idx[k]]]

\* Order-preserving de-duplication (seen / uniq loop)
RECURSIVE Uniq(_, _)
Uniq(arr, out) ==
    IF arr = <<>> THEN out
    ELSE IF Head(arr) \in Range(out) THEN Uniq(Tail(arr), out)
    ELSE Uniq(Tail(arr), Append(out, Head(arr)))

\* DedupeBefore with the row number ascending
DedupeBefore_RowAscending(rows, i, j) ==
    LET di == to_datetime(rows[i].DateEntered)
        dj == to_datetime(rows[j].DateEntered)
    IN  IF di.ok /\ dj.ok /\ di.v # dj.v THEN di.v > dj.v
        ELSE IF di.ok # dj.ok THEN di.ok
        ELSE i < j

\* sort_values(["Patron ID", "_date_entered_dt", "_row"],
\*             ascending=[True, False, False]) within one Patron ID:
\* whether row i comes before row j (NaT sorts last)
DedupeBefore(rows, i, j) ==
    LET di == to_datetime(rows[i].DateEntered)
        dj == to_datetime(rows[j].DateEntered)
    IN  IF di.ok /\ dj.ok /\ di.v # dj.v THEN di.v > dj.v
        ELSE IF di.ok # dj.ok THEN di.ok
        ELSE i > j

\* drop_duplicates(subset=["Patron ID"], keep="first") after the sort:
\* one row per Patron ID, in ascending Patron ID order
dedupe_constituents_latest(rows) ==
    LET ids == SortStrs({rows[i].PatronID : i \in 1..Len(rows)})
        first(pid) ==
            CHOOSE i \in 1..Len(rows) :
                /\ rows[i].PatronID = pid
                /\ \A j \in 1..Len(rows) :
                       (j # i /\ rows[j].PatronID = pid)
                           => DedupeBefore(rows, i, j)
    IN  [k \in 1..Len(ids) |-> rows[first(ids[k])]]

\* The candidate list of one Patron ID: valid primary emails of the base
\* rows, then the valid emails of the emails table in file order
Candidates(base, emails, pid) ==
    LET prim == Pick(base, {i \in 1..Len(base) :
                    /\ base[i].PatronID = pid
                    /\ LET pe == standardize_email(_clean_str(base[i].PrimaryEmail))
                       IN  pe # EmptyStr /\ is_valid_email(pe)})
        tab  == Pick(emails, {i \in 1..Len(emails) :
                    /\ emails[i].PatronID = pid
                    /\ LET e == standardize_email(emails[i].Email)
                       IN  ~(e = EmptyStr \/ ~is_valid_email(e))})
    IN  [k \in 1..Len(prim) |-> standardize_email(_clean_str(prim[k].PrimaryEmail))]
          \o [k \in 1..Len(tab) |-> standardize_email(tab[k].Email)]

\* EmailPair without the de-duplication of the candidate list
EmailPair_NoDedupe(arr) ==
    LET email1 == IF Len(arr) >= 1 THEN arr[1] ELSE EmptyStr
        email2 == IF email1 # EmptyStr /\ Len(arr) >= 2 THEN arr[2] ELSE EmptyStr
    IN  [e1 |-> email1, e2 |-> email2]

\* email1 / email2 of a candidate list
EmailPair(arr) ==
    LET uniq   == Uniq(arr, <<>>)
        email1 == IF Len(uniq) >= 1 THEN uniq[1] ELSE EmptyStr
        email2 == IF email1 # EmptyStr /\ Len(uniq) >= 2
                    THEN (IF uniq[2] = email1 THEN EmptyStr ELSE uniq[2])
                    ELSE EmptyStr
    IN  [e1 |-> email1, e2 |-> email2]

\* The keys of the candidates dict in insertion order: the base rows' ids,
\* then the ids of emails-table rows that carry a valid email
EmailKeys(base, emails) ==
    LET valid == Pick(emails, {i \in 1..Len(emails) :
                     LET e == standardize_email(emails[i].Email)
                     IN  ~(e = EmptyStr \/ ~is_valid_email(e))})
    IN  Uniq([k \in 1..Len(base) |-> base[k].PatronID]
               \o [k \in 1..Len(valid) |-> valid[k].PatronID], <<>>)

build_email_columns(base, emails) ==
    LET keys == EmailKeys(base, emails)
    IN  [k \in 1..Len(keys) |->
           LET p == EmailPair(Candidates(base, emails, keys[k]))
           IN  [PatronID |-> keys[k], CB_Email_1 |-> p.e1, CB_Email_2 |-> p.e2]]

S_paid == <<"p","a","i","d">>

\* df["Status"].fillna("").str.lower() == "paid"
IsPaid(status) == Lower(IF status = NaN THEN EmptyStr ELSE status) = S_paid

\* QualifyingIdx without the Status filter
QualifyingIdx_NoStatusFilter(donations, has_status) ==
    {i \in 1..Len(donations) :
        /\ parse_currency_to_float(donations[i].DonationAmount).ok
        /\ to_datetime(donations[i].DonationDate).ok}

\* The rows left after the Status filter and dropna(["amount_num",
\* "date_dt"]).  has_status: the table has a Status column.
QualifyingIdx(donations, has_status) ==
    {i \in 1..Len(donations) :
        /\ has_status => IsPaid(donations[i].Status)
        /\ parse_currency_to_float(donations[i].DonationAmount).ok
        /\ to_datetime(donations[i].DonationDate).ok}

RECURSIVE SumAmounts(_)
SumAmounts(df) ==
    IF df = <<>> THEN 0
    ELSE parse_currency_to_float(Head(df).DonationAmount).v + SumAmounts(Tail(df))

\* RecentBefore with the amount ascending
RecentBefore_AmountAscending(a, b) ==
    LET da == to_datetime(a.DonationDate).v
        db == to_datetime(b.DonationDate).v
        xa == parse_currency_to_float(a.DonationAmount).v
        xb == parse_currency_to_float(b.DonationAmount).v
    IN  IF da # db THEN da > db ELSE xa < xb

\* sort_values(["Patron ID", "date_dt", "amount_num"],
\*             ascending=[True, False, False]) within one Patron ID:
\* whether row a sorts strictly before row b
RecentBefore(a, b) ==
    LET da == to_datetime(a.DonationDate).v
        db == to_datetime(b.DonationDate).v
        xa == parse_currency_to_float(a.DonationAmount).v
        xb == parse_currency_to_float(b.DonationAmount).v
    IN  IF da # db THEN da > db ELSE xa > xb

\* groupby("Patron ID").first() of the sorted frame
RecentRow(g) ==
    g[CHOOSE i \in 1..Len(g) : \A j \in 1..Len(g) : ~RecentBefore(g[j], g[i])]

\* The output row of one Patron ID from its qualifying rows g
MetricsRow(pid, g, recent) ==
    [PatronID |-> pid,
     CB_Lifetime_Donation_Amount |-> format_currency(SumAmounts(g)),
     CB_Most_Recent_Donation_Date |->
         IsoDate(to_datetime(recent.DonationDate).v),
     CB_Most_Recent_Donation_Amount |->
         format_currency(parse_currency_to_float(recent.DonationAmount).v)]

GroupOf(df, pid) == Pick(df, {i \in 1..Len(df) : df[i].PatronID = pid})

GroupMetrics(pid, g) == MetricsRow(pid, g, RecentRow(g))

MetricsOf(df, ids) ==
    [k \in 1..Len(ids) |-> GroupMetrics(ids[k], GroupOf(df, ids[k]))]

MetricsOfFrame(df) ==
    MetricsOf(df, SortStrs({df[i].PatronID : i \in 1..Len(df)}))

build_donation_metrics(donations, has_status) ==
    MetricsOfFrame(Pick(donations, QualifyingIdx(donations, has_status)))

classify_constituent_type(row) ==
    IF _clean_str(row.Company) # EmptyStr THEN "Company" ELSE "Person"

S_Unknown == <<"U","n","k","n","o","w","n">>

\* fill_missing_person_names keeping the names when either one is present
fill_missing_person_names_Either(patron_id, first, last) ==
    LET f == _clean_str(first)
        l == _clean_str(last)
    IN  IF f # EmptyStr \/ l # EmptyStr THEN <<f, l>>
        ELSE <<S_Unknown, S_Unknown \o <<"-">> \o patron_id>>

fill_missing_person_names(patron_id, first, last) ==
    LET f == _clean_str(first)
        l == _clean_str(last)
    IN  IF f # EmptyStr /\ l # EmptyStr THEN <<f, l>>
        ELSE <<S_Unknown, S_Unknown \o <<"-">> \o patron_id>>

S_JobTitle == <<"J","o","b"," ","T","i","t","l","e",":"," ">>

\* The row a left merge gives an id that the right table lacks
MissingConstituent ==
    [PatronID |-> NaN, Company |-> NaN, FirstName |-> NaN, LastName |-> NaN,
     Salutation |-> NaN, Title |-> NaN, DateEntered |-> NaN,
     PrimaryEmail |-> NaN, Tags |-> NaN]

\* The row of a table with this Patron ID, or the default when there is none
Lookup(table, pid, default) ==
    IF \E i \in 1..Len(table) : table[i].PatronID = pid
      THEN table[CHOOSE i \in 1..Len(table) : table[i].PatronID = pid]
      ELSE default

\* pd.Index(c ids).union(email_cols ids).union(donation_metrics ids)
AllIds(c, email_cols, donation_metrics) ==
    SortStrs({c[i].PatronID : i \in 1..Len(c)}
             \cup {email_cols[i].PatronID : i \in 1..Len(email_cols)}
             \cup {donation_metrics[i].PatronID : i \in 1..Len(donation_metrics)})

\* One row of the constituents output (everything but the final projection)
OutRow(id, c, email_cols, donation_metrics, mapping) ==
    LET r      == Lookup(c, id, MissingConstituent)
        ctype  == IF r.PatronID # NaN THEN classify_constituent_type(r)
                  ELSE "Person"
        names  == fill_missing_person_names(id, r.FirstName, r.LastName)
        tags   == apply_tag_mapping(
                      split_tags(IF r.Tags = NaN THEN EmptyStr ELSE r.Tags),
                      mapping)
        em     == Lookup(email_cols, id,
                         [PatronID |-> NaN, CB_Email_1 |-> NaN, CB_Email_2 |-> NaN])
        dm     == Lookup(donation_metrics, id,
                         [PatronID |-> NaN,
                          CB_Lifetime_Donation_Amount |-> NaN,
                          CB_Most_Recent_Donation_Date |-> NaN,
                          CB_Most_Recent_Donation_Amount |-> NaN])
        fillna(x) == IF x = NaN THEN EmptyStr ELSE x
    IN  [CB_Constituent_ID   |-> id,
         CB_Constituent_Type |-> ctype,
         CB_First_Name       |-> IF ctype = "Company" THEN EmptyStr ELSE names[1],
         CB_Last_Name        |-> IF ctype = "Company" THEN EmptyStr ELSE names[2],
         CB_Company_Name     |-> IF ctype = "Company" THEN _clean_str(r.Company)
                                 ELSE EmptyStr,
         CB_Created_At       |-> parse_date_any(r.DateEntered),
         CB_Email_1          |-> em.CB_Email_1,
         CB_Email_2          |-> IF fillna(em.CB_Email_1) = EmptyStr THEN EmptyStr
                                 ELSE em.CB_Email_2,
         CB_Title            |-> normalize_salutation(r.Salutation),
         CB_Tags             |-> Join(tags, <<",", " ">>),
         CB_Background_Information |->
             IF _clean_str(r.Title) # EmptyStr
               THEN S_JobTitle \o _clean_str(r.Title) ELSE EmptyStr,
         CB_Lifetime_Donation_Amount    |-> fillna(dm.CB_Lifetime_Donation_Amount),
         CB_Most_Recent_Donation_Date   |-> fillna(dm.CB_Most_Recent_Donation_Date),
         CB_Most_Recent_Donation_Amount |-> fillna(dm.CB_Most_Recent_Donation_Amount),
         _mapped_tags        |-> tags]

\* The final column selection drops _mapped_tags
FinalCols(r) ==
    [f \in (DOMAIN r) \ {"_mapped_tags"} |-> r[f]]

\* WithCols with the tags left unmapped
WithCols_Unmapped(c1, mapping) ==
    [k \in 1..Len(c1) |->
       [f \in (DOMAIN c1[k]) \cup {"raw_tags", "_mapped_tags", "CB_Constituent_Type"} |->
          IF f = "raw_tags" THEN split_tags(c1[k].Tags)
          ELSE IF f = "_mapped_tags" THEN split_tags(c1[k].Tags)
          ELSE IF f = "CB_Constituent_Type"
            THEN classify_constituent_type(c1[k])
          ELSE c1[k][f]]]

\* The canonical rows with the columns transform computes beside c:
\* raw_tags, c["_mapped_tags"] and c["CB Constituent Type"]
WithCols(c1, mapping) ==
    [k \in 1..Len(c1) |->
       [f \in (DOMAIN c1[k]) \cup {"raw_tags", "_mapped_tags", "CB_Constituent_Type"} |->
          IF f = "raw_tags" THEN split_tags(c1[k].Tags)
          ELSE IF f = "_mapped_tags"
            THEN apply_tag_mapping(split_tags(c1[k].Tags), mapping)
          ELSE IF f = "CB_Constituent_Type"
            THEN classify_constituent_type(c1[k])
          ELSE c1[k][f]]]

\* sort_values(["CB Tag Count", "CB Tag Name"], ascending=[False, True])
RECURSIVE SortTagRows(_)
SortTagRows(S) ==
    IF S = {} THEN <<>>
    ELSE LET m == CHOOSE x \in S : \A y \in S \ {x} :
                      \/ x.CB_Tag_Count > y.CB_Tag_Count
                      \/ /\ x.CB_Tag_Count = y.CB_Tag_Count
                         /\ StrLess(x.CB_Tag_Name, y.CB_Tag_Name)
         IN  <<m>> \o SortTagRows(S \ {m})

\* nunique of Patron ID per tag name over the (Patron ID, tag) pairs
TagCount(c2, t) ==
    Cardinality({c2[k].PatronID :
                   k \in {i \in 1..Len(c2) : t \in Range(c2[i]._mapped_tags)}})

\* tag_rows, drop_duplicates, groupby("CB Tag Name").nunique(), sort
TagsOut(c2) ==
    LET names == UNION {Range(c2[k]._mapped_tags) : k \in 1..Len(c2)}
    IN  SortTagRows({[CB_Tag_Name |-> t, CB_Tag_Count |-> TagCount(c2, t)]
                       : t \in names})

\* ------------------------------------------------------------------------
\* validate.py
\* ------------------------------------------------------------------------

AllowedTitles == {<<"M","r",".">>, <<"M","r","s",".">>, <<"M","s",".">>,
                  <<"D","r",".">>, EmptyStr}

\* The issues validate_constituents reports, by kind, in the order it
\* appends them
validate_constituents(df) ==
    LET fillna(x)  == IF x = NaN THEN EmptyStr ELSE x
        blank(x)   == Strip(fillna(x), Whitespace) = EmptyStr
        rows       == 1..Len(df)
        issue(cond, kind) == IF cond THEN <<kind>> ELSE <<>>
    IN  issue(\E i \in rows : df[i].CB_Constituent_Type \notin {"Person", "Company"},
              "invalid_type")
        \o issue(\E i \in rows : /\ df[i].CB_Constituent_Type = "Person"
                                 /\ (blank(df[i].CB_First_Name) \/ blank(df[i].CB_Last_Name)),
                 "person_missing_name")
        \o issue(\E i \in rows : /\ df[i].CB_Constituent_Type = "Company"
                                 /\ blank(df[i].CB_Company_Name),
                 "company_missing_name")
        \o issue(\E i \in rows : /\ blank(df[i].CB_Email_1)
                                 /\ ~blank(df[i].CB_Email_2),
                 "email2_without_email1")
        \o issue(\E i \in rows : /\ ~blank(df[i].CB_Email_1)
                                 /\ fillna(df[i].CB_Email_1) = fillna(df[i].CB_Email_2),
                 "email1_equals_email2")
        \o issue(\E i \in rows : /\ ~blank(df[i].CB_Email_1)
                                 /\ ~is_valid_email(fillna(df[i].CB_Email_1)),
                 "invalid_email1")
        \o issue(\E i \in rows : /\ ~blank(df[i].CB_Email_2)
                                 /\ ~is_valid_email(fillna(df[i].CB_Email_2)),
                 "invalid_email2")
        \o issue(\E i \in rows : fillna(df[i].CB_Title) \notin AllowedTitles,
                 "invalid_title")

\* Tag counts are integers by construction: nothing to report
validate_tags(df) == <<>>

\* ------------------------------------------------------------------------
\* The run: main.py calling fetch_tag_mapping, transform and the validators
\* ------------------------------------------------------------------------

VARIABLES
    pc,                \* where the run is: main, transform, validate, done, raised
    entry,             \* what was called: main, or transform directly
    constituents,      \* the three input tables
    emails,
    donations,
    has_status,        \* the donations table has a Status column
    no_network,        \* args.no_network
    requests_ok,       \* the requests module could be imported
    resp,              \* how the request to the tag API goes
    data,              \* the rows the tag API returns
    tag_mapping,       \* transform's tag_mapping argument
    mapping,           \* the mapping transform uses
    c,                 \* the canonical constituent rows
    email_cols,
    donation_metrics,
    out_core,          \* the output rows before the final column selection
    out,               \* the constituents table returned
    tags_out,          \* the tags table returned
    issues,            \* what the validators reported
    exit_code

vars == <<pc, entry, constituents, emails, donations, has_status, no_network,
          requests_ok, resp, data, tag_mapping, mapping, c, email_cols,
          donation_metrics, out_core, out, tags_out, issues, exit_code>>

inputs == <<entry, constituents, emails, donations, has_status, no_network,
            requests_ok, resp, data>>

results == <<mapping, c, email_cols, donation_metrics, out_core, out, tags_out>>

\* tag_mapping=None, and tag_mapping=m
NoArg == [given |-> FALSE]

Arg(m) == [given |-> TRUE, value |-> m]

\* mapping = {} if args.no_network else fetch_tag_mapping()
MainNoNetwork ==
    /\ pc = "main"
    /\ no_network
    /\ tag_mapping' = Arg(EmptyMapping)
    /\ pc' = "transform"
    /\ UNCHANGED <<inputs, results, issues, exit_code>>

MainFetch ==
    /\ pc = "main"
    /\ ~no_network
    /\ LET r == fetch_tag_mapping(requests_ok, resp, data)
       IN  /\ tag_mapping' = IF r.raised THEN tag_mapping ELSE Arg(r.value)
           /\ pc' = IF r.raised THEN "raised" ELSE "transform"
    /\ UNCHANGED <<inputs, results, issues, exit_code>>

\* What transform computes once the mapping is known
TransformRows(c1, ec, dm, m, ids) ==
    [c2 |-> WithCols(c1, m),
     email_cols |-> ec,
     donation_metrics |-> dm,
     out_core |-> [k \in 1..Len(ids) |-> OutRow(ids[k], c1, ec, dm, m)]]

TransformTables(c1, ec, dm, m) ==
    TransformRows(c1, ec, dm, m, AllIds(c1, ec, dm))

TransformCanonical(c1, em, don, hs, m) ==
    TransformTables(c1, build_email_columns(c1, em),
                    build_donation_metrics(don, hs), m)

transform(con, em, don, hs, m) ==
    TransformCanonical(dedupe_constituents_latest(con), em, don, hs, m)

\* mapping = tag_mapping if tag_mapping is not None else fetch_tag_mapping()
ResolveMapping(arg, req, rs, d) ==
    IF arg.given THEN [raised |-> FALSE, value |-> arg.value]
    ELSE fetch_tag_mapping(req, rs, d)

Project(oc) == [k \in 1..Len(oc) |-> FinalCols(oc[k])]

TransformStore(r, m) ==
    /\ mapping' = m
    /\ c' = r.c2
    /\ email_cols' = r.email_cols
    /\ donation_metrics' = r.donation_metrics
    /\ out_core' = r.out_core
    /\ out' = Project(r.out_core)
    /\ tags_out' = TagsOut(r.c2)

TransformWith(fetched) ==
    IF fetched.raised
      THEN pc' = "raised" /\ UNCHANGED results
      ELSE /\ pc' = "validate"
           /\ TransformStore(transform(constituents, emails, donations,
                                       has_status, fetched.value),
                             fetched.value)

\* transform(constituents, emails, donations, tag_mapping)
Transform ==
    /\ pc = "transform"
    /\ TransformWith(ResolveMapping(tag_mapping, requests_ok, resp, data))
    /\ UNCHANGED <<inputs, tag_mapping, issues, exit_code>>

\* The validators, then the exit status
Validate ==
    /\ pc = "validate"
    /\ issues' = validate_constituents(out) \o validate_tags(tags_out)
    /\ exit_code' = IF issues' # <<>> THEN 2 ELSE 0
    /\ pc' = "done"
    /\ UNCHANGED <<inputs, tag_mapping, results>>

Next == MainNoNetwork \/ MainFetch \/ Transform \/ Validate

\* ------------------------------------------------------------------------
\* Inputs
\* ------------------------------------------------------------------------

\* Every sequence over S of length at most n
SeqsUpTo(S, n) == UNION {[1..k -> S] : k \in 0..n}

P1 == <<"1">>
P2 == <<"2">>
P7 == <<"7">>

N_Jane  == <<"J","a","n","e">>
N_Doe   == <<"D","o","e">>
N_Smith == <<"S","m","i","t","h">>
N_Lee   == <<"L","e","e">>
N_Kim   == <<"K","i","m">>

\* A constituents row with nothing but an id and a person's name
BaseRow(pid) ==
    [PatronID |-> pid, Company |-> NaN, FirstName |-> N_Jane,
     LastName |-> N_Doe, Salutation |-> <<"M","r">>, Title |-> NaN,
     DateEntered |-> D_Jan1, PrimaryEmail |-> NaN, Tags |-> NaN]

\* The state before the first step of a run in environment env
Start(env) ==
    /\ no_network = env.no_network
    /\ requests_ok = env.requests_ok
    /\ resp = env.resp
    /\ data = env.data
    /\ pc = env.entry
    /\ entry = env.entry
    /\ tag_mapping = env.arg
    /\ mapping = EmptyMapping
    /\ c = <<>>
    /\ email_cols = <<>>
    /\ donation_metrics = <<>>
    /\ out_core = <<>>
    /\ out = <<>>
    /\ tags_out = <<>>
    /\ issues = <<>>
    /\ exit_code = 0

\* main run with or without --no-network
MainEnv(nonet, req, r, d) ==
    [entry |-> "main", arg |-> NoArg, no_network |-> nonet,
     requests_ok |-> req, resp |-> r, data |-> d]

\* transform called directly with this tag_mapping argument
DirectEnv(arg, req, r, d) ==
    [entry |-> "transform", arg |-> arg, no_network |-> FALSE,
     requests_ok |-> req, resp |-> r, data |-> d]

\* The two ways main runs when the tag API answers with no rows
PlainEnvs == {MainEnv(TRUE, TRUE, "ok", <<>>),
              MainEnv(FALSE, TRUE, "ok", <<>>)}

\* --- Identity canonicalizer inputs ---

MaxDedupeRows == 3

RowNames == <<N_Doe, N_Smith, N_Lee, N_Kim>>

DedupeDates == {NaN, D_Bad, D_Jan1, D_Jun1, D_Jun1pm}

\* Tables whose i-th row carries the i-th last name, so that rows stay
\* distinguishable
DedupeTables ==
    LET keys == [pid : {P1, P2}, date : DedupeDates]
    IN  {[i \in 1..Len(t) |->
            [BaseRow(t[i].pid) EXCEPT !.DateEntered = t[i].date,
                                      !.LastName = RowNames[i]]]
           : t \in SeqsUpTo(keys, MaxDedupeRows) \ {<<>>}}

InitDedupe ==
    /\ constituents \in DedupeTables
    /\ emails = <<>>
    /\ donations = <<>>
    /\ has_status = TRUE
    /\ \E env \in PlainEnvs : Start(env)

SpecDedupe == InitDedupe /\ [][Next]_vars

\* --- Contact resolver inputs ---

MaxEmailRows == 2

P9 == <<"9">>

E_JANE    == <<"J","A","@","X",".","c">>
E_jane    == <<"j","a","@","x",".","c">>
E_wrapped == <<"<","b","@","y",".","d",">">>
E_b       == <<"b","@","y",".","d">>
E_bad     == <<"b",".","y">>
E_tab     == <<"a","\t","b","@","x",".","c">>
E_tabwrap == <<"<","\t","@","y",".","d",">">>

S_Paid == <<"P","a","i","d">>

DonationRow(pid, amount, date, status) ==
    [PatronID |-> pid, DonationAmount |-> amount, DonationDate |-> date,
     Status |-> status]

EmailConstituent(pid, primary, date) ==
    [BaseRow(pid) EXCEPT !.PrimaryEmail = primary, !.DateEntered = date]

\* One constituent, or two snapshots of one constituent whose primary
\* emails differ
EmailConstituentTables ==
    {<<EmailConstituent(P1, e, D_Jan1)>> : e \in {NaN, E_JANE, E_bad}}
    \cup {<<EmailConstituent(P1, E_JANE, D_Jan1), EmailConstituent(P1, E_bad, D_Jun1)>>,
          <<EmailConstituent(P1, E_wrapped, D_Jan1), EmailConstituent(P1, E_JANE, D_Jun1)>>,
          <<EmailConstituent(P1, NaN, D_Jan1), EmailConstituent(P2, E_wrapped, D_Jan1)>>}

\* Emails of the constituent, and of an identity the constituents table
\* does not know
EmailRows ==
    [PatronID : {P1}, Email : {NaN, E_jane, E_wrapped, E_bad, E_tab, E_tabwrap}]
    \cup [PatronID : {P7}, Email : {E_jane, E_bad}]

InitEmail ==
    /\ constituents \in EmailConstituentTables
    /\ emails \in SeqsUpTo(EmailRows, MaxEmailRows)
    /\ donations = <<DonationRow(P9, <<"$","5">>, D_Mar1, S_Paid)>>
    /\ has_status = TRUE
    /\ \E env \in PlainEnvs : Start(env)

SpecEmail == InitEmail /\ [][Next]_vars

\* --- Donation aggregator inputs ---

MaxDonationRows == 2

A_5      == <<"$","5">>
A_1000   == <<"1",",","0","0","0",".","0","0","4">>
A_70     == <<"$","7","0">>
A_bad    == <<"x">>
S_refunded == <<"r","e","f","u","n","d","e","d">>

\* Rows that qualify when paid, and rows that do not: refunded, amount not
\* a number, date not a date
DonationRows ==
    {DonationRow(p, a, d, S_Paid) :
        p \in {P1, P2}, a \in {A_5, A_1000}, d \in {D_Mar1, D_Jun1, D_Jun1pm}}
    \cup {DonationRow(p, A_70, D_Jun1pm, S_refunded) : p \in {P1, P2}}
    \cup {DonationRow(p, A_bad, D_Jun1pm, S_Paid) : p \in {P1, P2}}
    \cup {DonationRow(p, A_70, D_Bad, S_paid) : p \in {P1, P2}}

InitDonations ==
    /\ constituents = <<BaseRow(P1)>>
    /\ emails = <<>>
    /\ donations \in SeqsUpTo(DonationRows, MaxDonationRows)
    /\ has_status \in BOOLEAN
    /\ \E env \in PlainEnvs : Start(env)

SpecDonations == InitDonations /\ [][Next]_vars

\* --- Tag normalizer inputs ---

MaxTagLen == 4

TagAlphabet == {"b", "B", "d", ",", " "}

T_example == <<"B","o","a","r","d",",",
               " ","b","o","a","r","d",",",
               " ","D","o","n","o","r">>
T_Board      == <<"B","o","a","r","d">>
T_Donor      == <<"D","o","n","o","r">>
T_MajorDonor == <<"M","a","j","o","r"," ","D","o","n","o","r">>

ApiRow(name, mapped) == [name |-> name, mapped_name |-> mapped]

\* {"d": " ", "b": "D"}: a mapping a caller passes to transform itself
DirectMapping ==
    [k \in {<<"d">>, <<"b">>} |-> IF k = <<"d">> THEN <<" ">> ELSE <<"D">>]

TagEnvs ==
    {MainEnv(TRUE, TRUE, "ok", <<>>),
     MainEnv(FALSE, TRUE, "ok", <<ApiRow(<<"D">>, <<" ","B"," ">>)>>),
     MainEnv(FALSE, TRUE, "ok", <<ApiRow(T_Donor, T_MajorDonor),
                                  ApiRow(<<"b">>, <<"d">>)>>),
     DirectEnv(Arg(DirectMapping), TRUE, "ok", <<>>),
     DirectEnv(NoArg, TRUE, "timeout", <<>>)}

TagTexts == SeqsUpTo(TagAlphabet, MaxTagLen) \cup {NaN, T_example}

InitTags ==
    /\ constituents \in {<<[BaseRow(P1) EXCEPT !.Tags = t]>> : t \in TagTexts}
    /\ emails = <<>>
    /\ donations = <<>>
    /\ has_status = TRUE
    /\ \E env \in TagEnvs : Start(env)

SpecTags == InitTags /\ [][Next]_vars

\* --- Tag counter inputs ---

MaxTagRows == 3

TagRowTexts == {NaN, <<"B",","," ","b",","," ","d">>, <<"b">>, <<"d">>}

TagCountEnvs ==
    {MainEnv(TRUE, TRUE, "ok", <<>>),
     MainEnv(FALSE, TRUE, "ok", <<ApiRow(<<"D">>, <<" ","B"," ">>)>>)}

InitTagCount ==
    /\ constituents \in
           SeqsUpTo({[BaseRow(p) EXCEPT !.Tags = t] : p \in {P1, P2}, t \in TagRowTexts},
                    MaxTagRows) \ {<<>>}
    /\ emails = <<[PatronID |-> P7, Email |-> E_jane]>>
    /\ donations = <<>>
    /\ has_status = TRUE
    /\ \E env \in TagCountEnvs : Start(env)

SpecTagCount == InitTagCount /\ [][Next]_vars

\* --- Record assembler inputs ---

MaxClassifyRows == 2

N_Acme == <<"A","c","m","e">>

ClassifyRows ==
    {[BaseRow(p) EXCEPT !.Company = co, !.FirstName = n[1], !.LastName = n[2]] :
        p \in {P1, P2},
        co \in {NaN, <<" ">>, N_Acme},
        n \in {<<N_Jane, N_Doe>>, <<N_Jane, NaN>>, <<<<" ">>, N_Doe>>, <<NaN, NaN>>}}

InitClassify ==
    /\ constituents \in SeqsUpTo(ClassifyRows, MaxClassifyRows) \ {<<>>}
    /\ emails = <<[PatronID |-> P7, Email |-> E_jane]>>
    /\ donations = <<DonationRow(P9, A_5, D_Mar1, S_Paid)>>
    /\ has_status = TRUE
    /\ \E env \in PlainEnvs : Start(env)

SpecClassify == InitClassify /\ [][Next]_vars

\* --- Tag mapping fetch inputs ---

MaxApiRows == 2

ApiRows ==
    {ApiRow(T_Donor, T_MajorDonor), ApiRow(<<" ","D"," ">>, <<" ","b"," ">>),
     ApiRow(NaN, <<"M">>), ApiRow(<<"b">>, NaN)}

FetchEnvs ==
    {MainEnv(nonet, req, r, d) :
        nonet \in BOOLEAN, req \in BOOLEAN, r \in Responses,
        d \in SeqsUpTo(ApiRows, MaxApiRows)}
    \cup {DirectEnv(NoArg, req, r, d) :
        req \in BOOLEAN, r \in Responses, d \in SeqsUpTo(ApiRows, MaxApiRows)}

InitFetch ==
    /\ constituents \in {<<[BaseRow(P1) EXCEPT !.Tags = t]>> :
                            t \in {T_example, <<"d",",","B",",","b">>}}
    /\ emails = <<>>
    /\ donations = <<>>
    /\ has_status = TRUE
    /\ \E env \in FetchEnvs : Start(env)

SpecFetch == InitFetch /\ [][Next]_vars

\* --- Every input above ---

Init ==
    \/ InitDedupe
    \/ InitEmail
    \/ InitDonations
    \/ InitTags
    \/ InitTagCount
    \/ InitClassify
    \/ InitFetch

Spec == Init /\ [][Next]_vars

\* ------------------------------------------------------------------------
\* Properties
\* ------------------------------------------------------------------------

\* transform has returned its tables
Returned == pc \in {"validate", "done"}

\* The parsed Date Entered of an input row as a rank: rows without a
\* parseable date rank below every row with one
DateRank(row) ==
    IF to_datetime(row.DateEntered).ok THEN to_datetime(row.DateEntered).v ELSE -1

SamePid(i, j) == constituents[i].PatronID = constituents[j].PatronID

\* Row i has the best date rank among the rows of its Patron ID
BestDate(i) ==
    \A j \in 1..Len(constituents) :
        SamePid(i, j) => DateRank(constituents[i]) >= DateRank(constituents[j])

Tied(i, j) ==
    SamePid(i, j) /\ DateRank(constituents[i]) = DateRank(constituents[j])

\* Canonical row k is input row i (the columns transform adds set aside)
IsInputRow(k, i) ==
    [f \in DOMAIN constituents[i] |-> c[k][f]] = constituents[i]

\* c has exactly one row for each Patron ID of the constituents table
OneRowPerPatron ==
    /\ \A i \in 1..Len(constituents) :
           \E k \in 1..Len(c) : c[k].PatronID = constituents[i].PatronID
    /\ \A k \in 1..Len(c) :
           \E i \in 1..Len(constituents) : c[k].PatronID = constituents[i].PatronID
    /\ \A k1, k2 \in 1..Len(c) : c[k1].PatronID = c[k2].PatronID => k1 = k2

\* C2 as stated: the canonicalizer keeps, for each Patron ID, the row with
\* the latest parseable Date Entered (missing dates last) and, among rows
\* tied on date, the row that occurs EARLIEST in the input.
C2_EarliestRowWinsTies ==
    Returned =>
        /\ OneRowPerPatron
        /\ \A k \in 1..Len(c) :
               \E i \in 1..Len(constituents) :
                   /\ IsInputRow(k, i)
                   /\ BestDate(i)
                   /\ \A j \in 1..Len(constituents) : Tied(i, j) => i <= j

\* C2 amended: the canonicalizer keeps, for each Patron ID, exactly one row:
\* the row with the latest parseable Date Entered (missing dates last) and,
\* among rows tied on date, the row that occurs LATEST in the input.
C2_LatestRowWinsTies ==
    Returned =>
        /\ OneRowPerPatron
        /\ \A k \in 1..Len(c) :
               \E i \in 1..Len(constituents) :
                   /\ IsInputRow(k, i)
                   /\ BestDate(i)
                   /\ \A j \in 1..Len(constituents) : Tied(i, j) => i >= j

\* C2 witness: a Patron ID with three rows, two of them tied on the latest
\* date, has been canonicalized to the later of the two
C2_Witness ==
    /\ pc = "done"
    /\ Len(constituents) = 3
    /\ \A i \in 1..3 : constituents[i].PatronID = P1
    /\ constituents[1].DateEntered = D_Jun1
    /\ constituents[2].DateEntered = D_Jan1
    /\ constituents[3].DateEntered = D_Jun1
    /\ Len(c) = 1
    /\ c[1].LastName = RowNames[3]

\* --- Emails ---

FillNa(x) == IF x = NaN THEN EmptyStr ELSE x

\* C1: in every row of the constituents table transform returns, if CB
\* Email 1 is empty then CB Email 2 is empty, and if both are non-empty
\* they differ.
C1_EmailInvariant ==
    Returned =>
        \A k \in 1..Len(out) :
            /\ FillNa(out[k].CB_Email_1) = EmptyStr
                   => FillNa(out[k].CB_Email_2) = EmptyStr
            /\ (FillNa(out[k].CB_Email_1) # EmptyStr
                    /\ FillNa(out[k].CB_Email_2) # EmptyStr)
                   => out[k].CB_Email_1 # out[k].CB_Email_2

\* C1 witness: the primary email and an emails-table row are the same
\* address once standardized, and the row came out with Email 2 empty;
\* another row has no email at all
C1_Witness ==
    /\ pc = "done"
    /\ constituents = <<EmailConstituent(P1, E_JANE, D_Jan1)>>
    /\ emails = <<[PatronID |-> P1, Email |-> E_jane]>>
    /\ \E k \in 1..Len(out) :
           /\ out[k].CB_Constituent_ID = P1
           /\ out[k].CB_Email_1 = E_jane
           /\ out[k].CB_Email_2 = EmptyStr
    /\ \E k \in 1..Len(out) :
           /\ out[k].CB_Constituent_ID = P9
           /\ FillNa(out[k].CB_Email_1) = EmptyStr

\* The ranked candidates of an identity as the claim lists them: the
\* canonical row's Primary Email if valid, then the identity's emails-table
\* entries in file order, each kept only if valid, all standardized
RECURSIVE ValidEmailsFrom(_, _, _)
ValidEmailsFrom(rows, pid, i) ==
    IF i > Len(rows) THEN <<>>
    ELSE (IF rows[i].PatronID = pid
               /\ is_valid_email(standardize_email(rows[i].Email))
            THEN <<standardize_email(rows[i].Email)>> ELSE <<>>)
         \o ValidEmailsFrom(rows, pid, i + 1)

RankedCandidates(pid) ==
    (IF \E k \in 1..Len(c) :
           /\ c[k].PatronID = pid
           /\ is_valid_email(standardize_email(c[k].PrimaryEmail))
       THEN <<standardize_email(
                (CHOOSE r \in Range(c) : r.PatronID = pid).PrimaryEmail)>>
       ELSE <<>>)
    \o ValidEmailsFrom(emails, pid, 1)

\* The first entry after the first that differs from the first, or ""
RECURSIVE FirstDiffering(_, _)
FirstDiffering(cands, i) ==
    IF i > Len(cands) THEN EmptyStr
    ELSE IF cands[i] # cands[1] THEN cands[i]
    ELSE FirstDiffering(cands, i + 1)

\* C4: for every identity build_email_columns reports, Email 1 is the first
\* ranked candidate (or empty when there is none) and Email 2 is the first
\* later candidate that differs from Email 1, or empty.
C4_RankedEmails ==
    Returned =>
        \A k \in 1..Len(email_cols) :
            LET cands == RankedCandidates(email_cols[k].PatronID) IN
            /\ email_cols[k].CB_Email_1 =
                   (IF cands = <<>> THEN EmptyStr ELSE cands[1])
            /\ email_cols[k].CB_Email_2 = FirstDiffering(cands, 2)

\* C4 witness: the spec's example (upper-case primary, the same address in
\* the emails table), and a run where the second distinct address is the
\* third candidate
C4_Witness ==
    /\ pc = "done"
    /\ constituents = <<EmailConstituent(P1, E_JANE, D_Jan1)>>
    /\ emails = <<[PatronID |-> P1, Email |-> E_jane],
                  [PatronID |-> P1, Email |-> E_wrapped]>>
    /\ email_cols = <<[PatronID |-> P1, CB_Email_1 |-> E_jane, CB_Email_2 |-> E_b]>>

\* --- Donations ---

\* A donation row qualifies: paid (ignoring case) when the table has a
\* Status column, with a parseable amount and a parseable date
Qualifies(i) ==
    /\ has_status => Lower(FillNa(donations[i].Status)) = S_paid
    /\ parse_currency_to_float(donations[i].DonationAmount).ok
    /\ to_datetime(donations[i].DonationDate).ok

QualifyingOf(pid) ==
    {i \in 1..Len(donations) : donations[i].PatronID = pid /\ Qualifies(i)}

AmountOf(i) == parse_currency_to_float(donations[i].DonationAmount).v

WhenOf(i) == to_datetime(donations[i].DonationDate).v

OutRowOf(pid) == CHOOSE r \in Range(out) : r.CB_Constituent_ID = pid

DonorIds == {donations[i].PatronID : i \in 1..Len(donations)}

\* C5: for every identity with a qualifying donation, the reported
\* most-recent date and amount are those of one qualifying row that has the
\* latest date and, among the qualifying rows with that date, the largest
\* amount.
C5_MostRecentDonation ==
    Returned =>
        \A pid \in DonorIds :
            QualifyingOf(pid) # {} =>
                /\ \E r \in Range(out) : r.CB_Constituent_ID = pid
                /\ \E i \in QualifyingOf(pid) :
                       /\ \A j \in QualifyingOf(pid) : WhenOf(j) <= WhenOf(i)
                       /\ \A j \in QualifyingOf(pid) :
                              WhenOf(j) = WhenOf(i) => AmountOf(j) <= AmountOf(i)
                       /\ OutRowOf(pid).CB_Most_Recent_Donation_Date
                              = IsoDate(WhenOf(i))
                       /\ OutRowOf(pid).CB_Most_Recent_Donation_Amount
                              = format_currency(AmountOf(i))

\* C5 witness: two paid rows share the latest date, a refunded row is as
\* late and larger, and the larger paid row was reported
C5_Witness ==
    /\ pc = "done"
    /\ has_status
    /\ \E i, j \in 1..Len(donations) :
           /\ donations[i] = DonationRow(P2, A_5, D_Jun1pm, S_Paid)
           /\ donations[j] = DonationRow(P2, A_1000, D_Jun1pm, S_Paid)
    /\ OutRowOf(P2).CB_Most_Recent_Donation_Date = D_Jun1
    /\ OutRowOf(P2).CB_Most_Recent_Donation_Amount
           = <<"$","1",",","0","0","0",".","0","0">>

\* The sum of the amounts of a set of donation rows
RECURSIVE SumRows(_)
SumRows(S) ==
    IF S = {} THEN 0
    ELSE LET i == CHOOSE j \in S : TRUE IN AmountOf(i) + SumRows(S \ {i})

\* The lifetime totals of the output rows from k on, parsed back to numbers
RECURSIVE SumLifetimes(_)
SumLifetimes(k) ==
    IF k > Len(out) THEN 0
    ELSE (IF out[k].CB_Lifetime_Donation_Amount = EmptyStr THEN 0
          ELSE parse_currency_to_float(out[k].CB_Lifetime_Donation_Amount).v)
         + SumLifetimes(k + 1)

\* The paid rows (every row when there is no Status column) with a number
\* for an amount, of the identities that have a qualifying row
PaidRowsOfDonors ==
    {i \in 1..Len(donations) :
        /\ has_status => Lower(FillNa(donations[i].Status)) = S_paid
        /\ parse_currency_to_float(donations[i].DonationAmount).ok
        /\ QualifyingOf(donations[i].PatronID) # {}}

\* C6 as stated: the sum of the lifetime totals of the output, as numbers,
\* equals the sum of the amounts of all paid donation rows of the raw input,
\* over the identities that have a qualifying transaction.
C6_LifetimeSumsAllPaidRows ==
    Returned => SumLifetimes(1) = SumRows(PaidRowsOfDonors)

\* Each identity's qualifying amounts summed, then rounded to whole cents
RECURSIVE SumRoundedPerDonor(_)
SumRoundedPerDonor(S) ==
    IF S = {} THEN 0
    ELSE LET pid == CHOOSE q \in S : TRUE
         IN  10 * RoundCents(SumRows(QualifyingOf(pid)))
               + SumRoundedPerDonor(S \ {pid})

\* C6 amended: the sum of the lifetime totals of the output, as numbers,
\* equals the sum, over the identities that have a qualifying transaction,
\* of the amounts of that identity's qualifying rows (paid when there is a
\* Status column, amount and date both parseable), each identity's sum
\* rounded to whole cents.
C6_LifetimeSumsQualifyingRows ==
    Returned =>
        SumLifetimes(1)
            = SumRoundedPerDonor({pid \in DonorIds : QualifyingOf(pid) # {}})

\* C6 witness: a donor has a paid donation that counts and a paid donation
\* whose date does not parse; the total leaves the second one out
C6_Witness ==
    /\ pc = "done"
    /\ has_status
    /\ donations = <<DonationRow(P1, A_1000, D_Mar1, S_Paid),
                     DonationRow(P1, A_70, D_Bad, S_paid)>>
    /\ OutRowOf(P1).CB_Lifetime_Donation_Amount = <<"$","1",",","0","0","0",".","0","0">>
    /\ SumLifetimes(1) = 1000000

\* --- Identity universe ---

InputIds ==
    {constituents[i].PatronID : i \in 1..Len(constituents)}
    \cup {emails[i].PatronID : i \in 1..Len(emails)}
    \cup {donations[i].PatronID : i \in 1..Len(donations)}

\* C3: the constituents table transform returns has exactly one row for
\* every Patron ID that appears in any row of the three input tables, and no
\* other rows.
C3_OneRowPerInputId ==
    Returned =>
        /\ {out[k].CB_Constituent_ID : k \in 1..Len(out)} = InputIds
        /\ \A k1, k2 \in 1..Len(out) :
               out[k1].CB_Constituent_ID = out[k2].CB_Constituent_ID => k1 = k2

\* --- Tags ---

\* The trimmed pieces of a raw tag string
Pieces(raw) ==
    [i \in 1..Len(Split(Strip(FillNa(raw), Whitespace), ",")) |->
        Strip(Split(Strip(FillNa(raw), Whitespace), ",")[i], Whitespace)]

\* The local tags after the mapping, before de-duplication
MappedEntries(local, m) ==
    [i \in 1..Len(local) |->
        Strip(FillNa(IF Lower(local[i]) \in DOMAIN m THEN m[Lower(local[i])]
                     ELSE local[i]), Whitespace)]

\* Where an entry equal to e ignoring case first occurs in src
FirstPos(src, e) ==
    CHOOSE p \in 1..Len(src) :
        /\ Lower(src[p]) = Lower(e)
        /\ \A q \in 1..(p - 1) : Lower(src[q]) # Lower(e)

\* lst holds no empty entry and no two entries equal ignoring case, has an
\* entry for every non-empty entry of src, each as src first writes it, and
\* keeps them in the order src first shows them
FirstSeenNoDup(lst, src) ==
    /\ \A i \in 1..Len(lst) : lst[i] # EmptyStr
    /\ \A i, j \in 1..Len(lst) : Lower(lst[i]) = Lower(lst[j]) => i = j
    /\ \A p \in 1..Len(src) :
           src[p] # EmptyStr => \E i \in 1..Len(lst) : Lower(lst[i]) = Lower(src[p])
    /\ \A i \in 1..Len(lst) :
           /\ \E p \in 1..Len(src) : Lower(src[p]) = Lower(lst[i])
           /\ src[FirstPos(src, lst[i])] = lst[i]
    /\ \A i, j \in 1..Len(lst) :
           i < j => FirstPos(src, lst[i]) < FirstPos(src, lst[j])

\* C7: the local list of split_tags and the final list of apply_tag_mapping
\* each hold no empty entry and no two entries equal ignoring case, and keep
\* their entries in first-seen order.
C7_TagListsDuplicateFree ==
    Returned =>
        \A k \in 1..Len(c) :
            /\ FirstSeenNoDup(c[k].raw_tags, Pieces(c[k].Tags))
            /\ FirstSeenNoDup(c[k]._mapped_tags,
                              MappedEntries(c[k].raw_tags, mapping))

\* C7 witness: "Board, board, Donor" with {donor -> Major Donor} came out as
\* [Board, Donor] locally and [Board, Major Donor] finally
C7_Witness ==
    /\ pc = "done"
    /\ Len(c) = 1
    /\ c[1].Tags = T_example
    /\ Lower(T_Donor) \in DOMAIN mapping
    /\ mapping[Lower(T_Donor)] = T_MajorDonor
    /\ c[1].raw_tags = <<T_Board, T_Donor>>
    /\ c[1]._mapped_tags = <<T_Board, T_MajorDonor>>

\* The identities whose final tag list holds tag t
Carriers(t) ==
    {out_core[k].CB_Constituent_ID :
        k \in {i \in 1..Len(out_core) : t \in Range(out_core[i]._mapped_tags)}}

\* C8: the tags table has exactly one row for each tag name in some
\* identity's final tag list (the list CB Tags joins), and the row's count
\* is the number of distinct identities whose final list holds that tag.
C8_TagCounts ==
    Returned =>
        /\ \A k \in 1..Len(out) :
               out[k].CB_Tags = Join(out_core[k]._mapped_tags, <<",", " ">>)
        /\ \A i, j \in 1..Len(tags_out) :
               tags_out[i].CB_Tag_Name = tags_out[j].CB_Tag_Name => i = j
        /\ {tags_out[i].CB_Tag_Name : i \in 1..Len(tags_out)}
               = UNION {Range(out_core[k]._mapped_tags) : k \in 1..Len(out_core)}
        /\ \A i \in 1..Len(tags_out) :
               tags_out[i].CB_Tag_Count
                   = Cardinality(Carriers(tags_out[i].CB_Tag_Name))

\* C8 witness: two identities end with the tag "B" (one through the
\* mapping), one of them also with "b" in another snapshot that lost
C8_Witness ==
    /\ pc = "done"
    /\ mapping # EmptyMapping
    /\ Len(out) = 3
    /\ \E i \in 1..Len(tags_out) :
           /\ tags_out[i].CB_Tag_Name = <<"B">>
           /\ tags_out[i].CB_Tag_Count = 2
    /\ \E k \in 1..Len(out) : out[k].CB_Tags = <<"B">>

\* --- Person or Company ---

\* The canonical constituent row of an identity, when it has one
HasCanonical(id) == \E k \in 1..Len(c) : c[k].PatronID = id

CanonicalOf(id) == CHOOSE r \in Range(c) : r.PatronID = id

\* A field with nothing in it: missing, or only white space
Blank(x) == Strip(FillNa(x), Whitespace) = EmptyStr

\* C9: every output row is a Company with a company name or a Person with
\* first and last name; it is a Company exactly when its canonical row has a
\* Company; an identity without a canonical row is the Person "Unknown",
\* "Unknown-<identity key>".
C9_PersonOrCompany ==
    Returned =>
        \A k \in 1..Len(out) :
            /\ \/ /\ out[k].CB_Constituent_Type = "Company"
                  /\ ~Blank(out[k].CB_Company_Name)
               \/ /\ out[k].CB_Constituent_Type = "Person"
                  /\ ~Blank(out[k].CB_First_Name)
                  /\ ~Blank(out[k].CB_Last_Name)
            /\ out[k].CB_Constituent_Type = "Company"
                   <=> /\ HasCanonical(out[k].CB_Constituent_ID)
                       /\ ~Blank(CanonicalOf(out[k].CB_Constituent_ID).Company)
            /\ ~HasCanonical(out[k].CB_Constituent_ID) =>
                   /\ out[k].CB_Constituent_Type = "Person"
                   /\ out[k].CB_First_Name = S_Unknown
                   /\ out[k].CB_Last_Name
                          = S_Unknown \o <<"-">> \o out[k].CB_Constituent_ID

\* C9 witness: a company, a person whose last name is missing and who got
\* the placeholder, and two identities known only from emails and donations
C9_Witness ==
    /\ pc = "done"
    /\ Len(out) = 4
    /\ out[1].CB_Constituent_Type = "Company"
    /\ out[1].CB_Company_Name = N_Acme
    /\ constituents[2].PatronID = P2
    /\ constituents[2].FirstName = N_Jane
    /\ constituents[2].LastName = NaN
    /\ out[2].CB_Constituent_Type = "Person"
    /\ out[2].CB_First_Name = S_Unknown
    /\ out[2].CB_Last_Name = <<"U","n","k","n","o","w","n","-","2">>
    /\ out[3].CB_Constituent_ID = P7
    /\ out[3].CB_Last_Name = <<"U","n","k","n","o","w","n","-","7">>
    /\ out[4].CB_Constituent_ID = P9

\* --- Tag mapping fetch ---

\* The request cannot give a mapping
FetchFails == ~requests_ok \/ resp # "ok"

\* fetch_tag_mapping has been called and has returned or raised
Fetched ==
    \/ entry = "main" /\ ~no_network /\ pc # "main"
    \/ entry = "transform" /\ ~tag_mapping.given /\ pc # "transform"

\* C10: fetch_tag_mapping never raises; when the request fails it returns
\* the empty mapping; and a run that gets the empty mapping returns with
\* every final tag list equal to the local one.
C10_FetchFailuresAbsorbed ==
    /\ pc # "raised"
    /\ (Fetched /\ FetchFails /\ entry = "main")
           => tag_mapping = Arg(EmptyMapping)
    /\ (Fetched /\ FetchFails /\ Returned) => mapping = EmptyMapping
    /\ (Returned /\ mapping = EmptyMapping)
           => \A k \in 1..Len(c) : c[k]._mapped_tags = c[k].raw_tags

\* C10 witness: the request timed out, and the run finished with the tags
\* of "Board, board, Donor" left as [Board, Donor]
C10_Witness ==
    /\ pc = "done"
    /\ Fetched
    /\ requests_ok
    /\ resp = "timeout"
    /\ data # <<>>
    /\ mapping = EmptyMapping
    /\ c[1].Tags = T_example
    /\ out[1].CB_Tags = <<"B","o","a","r","d",","," ","D","o","n","o","r">>

\* --- Email validation ---

\* What the validation rule asks of an address once it is lower-cased and
\* trimmed: one "@", a local and a domain part, a "." in the domain, and no
\* whitespace character anywhere
RuleValid(x) ==
    LET e == standardize_email(x) IN
    /\ Count(e, "@") = 1
    /\ Split(e, "@")[1] # EmptyStr
    /\ Split(e, "@")[2] # EmptyStr
    /\ Contains(Split(e, "@")[2], ".")
    /\ \A ch \in Whitespace : ~Contains(e, ch)

\* The addresses the run hands to is_valid_email: the cells of the emails
\* table and the primary emails of the canonical constituents
CheckedAddresses ==
    {emails[i].Email : i \in 1..Len(emails)}
    \cup {c[k].PrimaryEmail : k \in 1..Len(c)}

\* C11: is_valid_email accepts an address if and only if, lower-cased and
\* trimmed, it has exactly one "@", non-empty local and domain parts, a "."
\* in the domain and no whitespace character of any kind; so no address with
\* a tab or a newline in it reaches the returned table.
C11_ValidIffNoWhitespace ==
    Returned =>
        /\ \A x \in CheckedAddresses : is_valid_email(x) <=> RuleValid(x)
        /\ \A k \in 1..Len(out) :
              /\ \A ch \in Whitespace : ~Contains(FillNa(out[k].CB_Email_1), ch)
              /\ \A ch \in Whitespace : ~Contains(FillNa(out[k].CB_Email_2), ch)

\* --- Fields without data ---

\* The identities that have a row in the constituents or the emails table
EmailedIds ==
    {emails[i].PatronID : i \in 1..Len(emails)}
    \cup {constituents[i].PatronID : i \in 1..Len(constituents)}

\* C12: in the constituents table transform returns, no email or donation
\* field is missing: an identity seen only in the donations table has CB
\* Email 1 and CB Email 2 empty, and an identity without a qualifying
\* donation has the three donation fields empty.
C12_BlankNeverMissing ==
    Returned =>
        \A k \in 1..Len(out) :
            /\ out[k].CB_Email_1 # NaN
            /\ out[k].CB_Email_2 # NaN
            /\ out[k].CB_Lifetime_Donation_Amount # NaN
            /\ out[k].CB_Most_Recent_Donation_Date # NaN
            /\ out[k].CB_Most_Recent_Donation_Amount # NaN
            /\ out[k].CB_Constituent_ID \notin EmailedIds
                   => /\ out[k].CB_Email_1 = EmptyStr
                      /\ out[k].CB_Email_2 = EmptyStr
            /\ QualifyingOf(out[k].CB_Constituent_ID) = {}
                   => /\ out[k].CB_Lifetime_Donation_Amount = EmptyStr
                      /\ out[k].CB_Most_Recent_Donation_Date = EmptyStr
                      /\ out[k].CB_Most_Recent_Donation_Amount = EmptyStr

====
